---- MODULE Spec2Model ----
(***************************************************************************)
(* Model of the data-extraction connectors:                                *)
(*   src/data_extraction/api_connector.py    (APIConnector)                *)
(*   src/data_extraction/excel_connector.py  (ExcelConnector)              *)
(*                                                                         *)
(* Spec         one run of one aggregator: APIConnector.get_all_api_data   *)
(*              (get_products, simulate_inventory with one action per      *)
(*              iteration of the inner loop, get_categories), or           *)
(*              ExcelConnector.get_all_data (the three loaders).           *)
(* SpecDeep     get_products and simulate_inventory on one well-formed     *)
(*              product, over more days than Spec affords.                 *)
(* SpecMetrics  _calculate_inventory_metrics applied to one arbitrary row. *)
(*                                                                         *)
(* Numbers: random.uniform factors are kept as tenths (NoiseDen), the      *)
(* float quotients of the metrics as reduced fractions.  A date is its     *)
(* distance in days from current_date (datetime +/- timedelta is exact).   *)
(***************************************************************************)
EXTENDS Integers, Sequences, FiniteSets, TLC

VARIABLES
    RESTOCKING_FREQUENCY,   \* config.RESTOCKING_FREQUENCY
    DEMAND_VARIABILITY,     \* config.DEMAND_VARIABILITY, in tenths
    days,                   \* simulate_inventory's parameter days
    pc,                     \* position in get_all_api_data / get_all_data
    response,               \* what requests.get(.../products) delivered
    products_df,            \* get_all_api_data: products_df
    day, row,               \* simulate_inventory: position of the two loops
    inventory_data,         \* simulate_inventory: inventory_data
    fresh_draws,            \* <<day, row>> at which randint(50, 200) was called
    raised,                 \* the exception raised inside simulate_inventory
    escaped,                \* the exception that left the operation called
    inventory_df,           \* get_all_api_data: inventory_df
    categories_df,          \* get_all_api_data: categories_df
    data,                   \* the mapping the aggregator returns
    quality_log,            \* the calls of log_data_quality_check, in order
    mrow,                   \* SpecMetrics: the row given to the deriver
    mout,                   \* SpecMetrics: the row it returns
    sheets                  \* get_all_data: what the workbook holds

vars == <<RESTOCKING_FREQUENCY, DEMAND_VARIABILITY, days, pc, response,
          products_df, day, row, inventory_data, fresh_draws, raised, escaped,
          inventory_df, categories_df, data, quality_log, mrow, mout, sheets>>

\* The variables of get_all_api_data alone.
simVars == <<RESTOCKING_FREQUENCY, DEMAND_VARIABILITY, days, response,
             products_df, day, row, inventory_data, fresh_draws, raised,
             escaped, inventory_df, categories_df>>

(***************************************************************************)
(* Bounds of the model.                                                    *)
(***************************************************************************)
MaxDays == 3          \* Spec: days is in 0..MaxDays
MaxProducts == 2      \* Spec: rows of the product table
MaxRecords == 4       \* Spec: days * rows, the records of one simulation
MaxFreq == 2          \* Spec: RESTOCKING_FREQUENCY is in 0..MaxFreq
MaxDeepDays == 7      \* SpecDeep: days is in 1..MaxDeepDays
MaxDeepFreq == 6      \* SpecDeep: RESTOCKING_FREQUENCY is in 1..MaxDeepFreq
MaxRestocks == 2      \* SpecDeep: restock days within one simulation
MaxStock == 60        \* SpecMetrics: stock_level is in 0..MaxStock
MaxDemand == 20       \* SpecMetrics: daily_demand is in 0..MaxDemand

(***************************************************************************)
(* Values.                                                                 *)
(***************************************************************************)
None == [none |-> TRUE]

NoException == "no exception"

Max(a, b) == IF a >= b THEN a ELSE b

\* Python's int(): truncation towards zero of the quotient n / d, d > 0.
IntTrunc(n, d) == IF n >= 0 THEN n \div d ELSE 0 - ((0 - n) \div d)

RECURSIVE Gcd(_, _)
Gcd(a, b) == IF b = 0 THEN a ELSE Gcd(b, a % b)

\* The float n / d (n >= 0, d > 0) as a reduced fraction.
Quotient(n, d) == LET g == Gcd(n, d) IN [num |-> n \div g, den |-> d \div g]

Infinity == [inf |-> TRUE]

\* x < k for a float x that is a fraction or float('inf'), k an integer.
LessThanInt(x, k) == IF x = Infinity THEN FALSE ELSE x.num < k * x.den

(***************************************************************************)
(* Configuration (config.py): RESTOCKING_FREQUENCY is a positive integer   *)
(* (0 makes day % RESTOCKING_FREQUENCY raise), DEMAND_VARIABILITY a        *)
(* fraction in [0, 1), here v / NoiseDen.                                  *)
(***************************************************************************)
NoiseDen == 10

VariabilityTenths == {0, 9}

(***************************************************************************)
(* The product table: pd.DataFrame(response.json()).  A row lacking 'id'   *)
(* holds NaN there; a column no row has is not a column of the table.      *)
(* title and category are strings, so a row read through iterrows() is an  *)
(* object Series and its price a Python number (or str).                   *)
(***************************************************************************)
RequiredColumns == {"id", "title", "price", "category"}

NaN == "nan"

Ids == {"1", "2", NaN}

Prices == {0, 10}

ProductRows == [id : Ids, price : Prices, price_is_number : BOOLEAN]

ColumnSets == {RequiredColumns} \cup {RequiredColumns \ {c} : c \in RequiredColumns}

RowSeqs(n) == UNION {[1..k -> ProductRows] : k \in 1..n}

\* Ids are numbered in the order of their first appearance; an absent column
\* carries one fixed filler value.
Canonical(f) ==
    /\ \A i \in 1..Len(f.rows) :
          f.rows[i].id = "2" => \E j \in 1..(i - 1) : f.rows[j].id = "1"
    /\ "id" \notin f.columns => \A i \in 1..Len(f.rows) : f.rows[i].id = "1"
    /\ "price" \notin f.columns =>
          \A i \in 1..Len(f.rows) :
             f.rows[i].price = 10 /\ f.rows[i].price_is_number
    /\ \A i \in 1..Len(f.rows) :
          ~f.rows[i].price_is_number => f.rows[i].price = 10

EmptyFrame == [columns |-> {}, rows |-> <<>>]

Frames(n) ==
    {EmptyFrame} \cup
    {f \in [columns : ColumnSets, rows : RowSeqs(n)] : Canonical(f)}

FetchFailed == [ok |-> FALSE, frame |-> EmptyFrame]

Responses(n) == {FetchFailed} \cup {[ok |-> TRUE, frame |-> f] : f \in Frames(n)}

\* == on two ids: NaN differs from everything, itself included.
IdEq(a, b) == a # NaN /\ b # NaN /\ a = b

(***************************************************************************)
(* _validate_products_data                                                 *)
(***************************************************************************)
\* df.isnull().sum().sum()
NullCells(df) ==
    IF "id" \in df.columns
    THEN Cardinality({i \in 1..Len(df.rows) : df.rows[i].id = NaN})
    ELSE 0

\* df.shape[0] * df.shape[1]
Cells(df) == Len(df.rows) * Cardinality(df.columns)

\* missing_pct > 0.05.  With no cell the numpy quotient 0 / 0 is nan (a
\* RuntimeWarning, no exception) and the comparison is False.
MissingAboveThreshold(nulls, cells) == cells > 0 /\ nulls * 100 > 5 * cells

MissingDataSignal(name, nulls, cells) ==
    <<name, IF MissingAboveThreshold(nulls, cells) THEN "WARNING" ELSE "PASS">>

\* missing_columns = [col for col in required_columns if col not in df.columns]
RequiredColumnsSignal(name, required, columns) ==
    <<name, IF required \ columns # {} THEN "FAIL" ELSE "PASS">>

\* df['price'] <= 0 raises TypeError when a price is a str.
PriceCheckRaises(df) ==
    /\ "price" \in df.columns
    /\ \E i \in 1..Len(df.rows) : ~df.rows[i].price_is_number

\* invalid_prices = df[df['price'] <= 0].shape[0]
InvalidPrices(df) == Cardinality({i \in 1..Len(df.rows) : df.rows[i].price <= 0})

PriceSignal(df) ==
    <<"Products Price Validation",
      IF InvalidPrices(df) > 0 THEN "WARNING" ELSE "PASS">>

\* The validator's outcome: the exception it raises and the signals it sent
\* to log_data_quality_check before.
ValidateProductsData(df) ==
    LET first == <<MissingDataSignal("Products Missing Data",
                                     NullCells(df), Cells(df)),
                   RequiredColumnsSignal("Products Required Columns",
                                         RequiredColumns, df.columns)>>
    IN  IF "price" \notin df.columns
        THEN [exception |-> NoException, signals |-> first]
        ELSE IF PriceCheckRaises(df)
        THEN [exception |-> "TypeError", signals |-> first]
        ELSE [exception |-> NoException,
              signals |-> Append(first, PriceSignal(df))]

\* except Exception: the exceptions the handlers of both connectors catch.
ExceptionSubclasses ==
    {"KeyError", "TypeError", "ZeroDivisionError", "HTTPError", "ValueError"}

Catches(exc) == exc \in ExceptionSubclasses

\* What get_products returns for what the catalog delivered.
GetProductsResult(resp) ==
    IF ~resp.ok
    THEN None
    ELSE IF ValidateProductsData(resp.frame).exception # NoException
         THEN None
         ELSE resp.frame

(***************************************************************************)
(* _calculate_inventory_metrics, row by row (np.where evaluates both       *)
(* branches; the quotient by zero it discards is inf or nan, no error).    *)
(***************************************************************************)
One == Quotient(1, 1)

Zero == Quotient(0, 1)

\* np.minimum(1.0, x)
MinimumOne(x) == IF x.num > x.den THEN One ELSE x

DaysOfInventory(stock_level, daily_demand) ==
    IF daily_demand > 0 THEN Quotient(stock_level, daily_demand) ELSE Infinity

\* The risk test as days_of_inventory <= 3.
StockoutRiskInclusive(days_of_inventory) ==
    days_of_inventory # Infinity
        /\ days_of_inventory.num <= 3 * days_of_inventory.den

StockoutRisk(days_of_inventory) == LessThanInt(days_of_inventory, 3)

\* The turnover guarded by daily_demand > 0: numpy's quotient by zero is inf.
AnnualizedTurnoverGuardedByDemand(stock_level, daily_demand) ==
    IF daily_demand > 0
    THEN IF stock_level = 0
         THEN Infinity
         ELSE Quotient(daily_demand * 365, stock_level)
    ELSE Zero

AnnualizedTurnover(stock_level, daily_demand) ==
    IF stock_level > 0 THEN Quotient(daily_demand * 365, stock_level) ELSE Zero

FillRate(stock_level, daily_demand) ==
    IF daily_demand > 0
    THEN MinimumOne(Quotient(stock_level, daily_demand))
    ELSE One

MetricsRow(r) ==
    [date |-> r.date,
     product_id |-> r.product_id,
     daily_demand |-> r.daily_demand,
     stock_level |-> r.stock_level,
     restock_amount |-> r.restock_amount,
     restocked |-> r.restocked,
     original_price |-> r.original_price,
     days_of_inventory |-> DaysOfInventory(r.stock_level, r.daily_demand),
     stockout_risk |->
         StockoutRisk(DaysOfInventory(r.stock_level, r.daily_demand)),
     annualized_turnover |-> AnnualizedTurnover(r.stock_level, r.daily_demand),
     fill_rate |-> FillRate(r.stock_level, r.daily_demand)]

\* df['daily_demand'] of pd.DataFrame([]) raises KeyError: the empty table
\* has no column.
MetricsException(records) == IF records = <<>> THEN "KeyError" ELSE NoException

CalculateInventoryMetrics(records) ==
    [i \in 1..Len(records) |-> MetricsRow(records[i])]

(***************************************************************************)
(* simulate_inventory: the random draws (the end points of each range),    *)
(* and the body of the inner loop.  The fields price and price_change_pct  *)
(* of a record, which nothing reads, are left out; the exception their     *)
(* computation can raise is not.                                           *)
(***************************************************************************)
BaseDemandLo == 1
BaseDemandHi == 10
InitialStockLo == 50
InitialStockHi == 200
RestockLo == 50
RestockHi == 100

\* random.randint(1, 10)
BaseDemandDraws == {BaseDemandLo, BaseDemandHi}

\* random.uniform(1 - DEMAND_VARIABILITY, 1 + DEMAND_VARIABILITY), in tenths
NoiseDraws(variability) == {NoiseDen - variability, NoiseDen + variability}

\* random.randint(50, 200)
InitialStockDraws == {InitialStockLo, InitialStockHi}

\* Restock amounts drawn from 10 on.
RestockDrawsFromTen == {10, RestockHi}

\* random.randint(50, 100)
RestockDraws == {RestockLo, RestockHi}

\* max(0, int(base_demand * demand_variability))
DailyDemand(base_demand, noise) == Max(0, IntTrunc(base_demand * noise, NoiseDen))

\* The restock test that leaves day 0 out.
RestockDayAfterFirst(d, frequency) == d > 0 /\ d % frequency = 0

\* day % RESTOCKING_FREQUENCY == 0
RestockDay(d, frequency) == d % frequency = 0

\* The record's stock_level without the clamp.
StockLevelUnclamped(new_stock) == new_stock

\* 'stock_level': max(0, new_stock)
StockLevel(new_stock) == Max(0, new_stock)

\* The scan that matches the date alone.
PrevRecordOfAnyProduct(records, id, date) ==
    LET hits == {i \in 1..Len(records) : records[i].date = date - 1}
    IN  IF hits = {} THEN 0 ELSE CHOOSE i \in hits : \A j \in hits : i <= j

\* next((r for r in inventory_data if r['product_id'] == product['id'] and
\*       r['date'] == date - timedelta(days=1)), None): the index of the first
\* such record, 0 for None.
PrevRecord(records, id, date) ==
    LET hits == {i \in 1..Len(records) :
                    IdEq(records[i].product_id, id) /\ records[i].date = date - 1}
    IN  IF hits = {} THEN 0 ELSE CHOOSE i \in hits : \A j \in hits : i <= j

\* The exception one pass of the loop body raises for product row p on day d,
\* in the order the body evaluates.
StepException(df, p, d) ==
    IF d > 0 /\ "id" \notin df.columns THEN "KeyError"
    ELSE IF RESTOCKING_FREQUENCY = 0 THEN "ZeroDivisionError"
    ELSE IF "price" \notin df.columns THEN "KeyError"
    ELSE IF ~p.price_is_number THEN "TypeError"
    ELSE IF {"id", "title", "category"} \ df.columns # {} THEN "KeyError"
    ELSE IF p.price = 0 THEN "ZeroDivisionError"
    ELSE NoException

\* The handler that returns what was produced so far.
OnExceptionPartial(records) == records

\* except Exception as e: return None
OnException(records) == None

InventoryRecord(d, p, daily_demand, current_stock, restock_amount, restocked) ==
    [date |-> d,
     product_id |-> p.id,
     daily_demand |-> daily_demand,
     stock_level |-> StockLevel(current_stock - daily_demand + restock_amount),
     restock_amount |-> restock_amount,
     restocked |-> restocked,
     original_price |-> p.price]

(***************************************************************************)
(* get_all_api_data                                                        *)
(***************************************************************************)
NoData == [k \in {} |-> None]

\* data[key] = value
Put(mapping, key, value) ==
    [k \in DOMAIN mapping \cup {key} |-> IF k = key THEN value ELSE mapping[k]]

\* The assignment without the test for None.
PutAlways(mapping, key, value) == Put(mapping, key, value)

\* if value is not None: data[key] = value
PutIfPresent(mapping, key, value) ==
    IF value # None THEN Put(mapping, key, value) ELSE mapping

CategoriesTable == [columns |-> {"category"}]

Idle == /\ mrow = None
        /\ mout = None
        /\ sheets = None

InitRun(start) ==
    /\ pc = start
    /\ products_df = None
    /\ day = 0
    /\ row = 1
    /\ inventory_data = <<>>
    /\ fresh_draws = {}
    /\ raised = NoException
    /\ escaped = NoException
    /\ inventory_df = None
    /\ categories_df = None
    /\ data = NoData
    /\ quality_log = <<>>

InitApi ==
    /\ RESTOCKING_FREQUENCY \in 0..MaxFreq
    /\ DEMAND_VARIABILITY \in VariabilityTenths
    /\ days \in 0..MaxDays
    /\ response \in Responses(MaxProducts)
    /\ Len(response.frame.rows) * days <= MaxRecords
    /\ InitRun("get_products")
    /\ Idle

\* products_df = self.get_products(); if products_df is not None: ...
GetProducts ==
    /\ pc = "get_products"
    /\ products_df' = GetProductsResult(response)
    /\ quality_log' = IF response.ok
                      THEN ValidateProductsData(response.frame).signals
                      ELSE <<>>
    /\ data' = PutIfPresent(data, "products", products_df')
    /\ pc' = IF products_df' # None THEN "simulate" ELSE "get_categories"
    /\ UNCHANGED <<RESTOCKING_FREQUENCY, DEMAND_VARIABILITY, days, response,
                   day, row, inventory_data, fresh_draws, raised, escaped,
                   inventory_df, categories_df, mrow, mout, sheets>>

\* The outer loop as range(days - 1).
InLoopOneDayShort == day < days - 1 /\ row <= Len(products_df.rows)

InLoop == day < days /\ row <= Len(products_df.rows)

\* One pass of the body of the inner loop that appends its record.  Each
\* random draw is made where the body makes it.
SimulateStep ==
    /\ pc = "simulate"
    /\ InLoop
    /\ StepException(products_df, products_df.rows[row], day) = NoException
    /\ LET product == products_df.rows[row]
           prev == IF day = 0
                   THEN 0
                   ELSE PrevRecord(inventory_data, product.id, day)
           restocked == RestockDay(day, RESTOCKING_FREQUENCY)
       IN  \E base_demand \in BaseDemandDraws,
              noise \in NoiseDraws(DEMAND_VARIABILITY),
              current_stock \in IF prev = 0
                                THEN InitialStockDraws
                                ELSE {inventory_data[prev].stock_level},
              restock_amount \in IF restocked THEN RestockDraws ELSE {0} :
              /\ inventory_data' =
                     Append(inventory_data,
                            InventoryRecord(day, product,
                                            DailyDemand(base_demand, noise),
                                            current_stock, restock_amount,
                                            restocked))
              /\ fresh_draws' = IF prev = 0
                                THEN fresh_draws \cup {<<day, row>>}
                                ELSE fresh_draws
    /\ IF row < Len(products_df.rows)
       THEN row' = row + 1 /\ day' = day
       ELSE row' = 1 /\ day' = day + 1
    /\ UNCHANGED <<RESTOCKING_FREQUENCY, DEMAND_VARIABILITY, days, pc, response,
                   products_df, raised, escaped, inventory_df, categories_df,
                   data, quality_log, mrow, mout, sheets>>

\* The end of simulate_inventory on exception exc, and the caller's
\* if inventory_df is not None.
Leave(exc, records) ==
    /\ raised' = exc
    /\ IF Catches(exc)
       THEN /\ inventory_df' = OnException(records)
            /\ escaped' = escaped
            /\ pc' = "get_categories"
            /\ data' = PutIfPresent(data, "inventory", inventory_df')
       ELSE /\ inventory_df' = inventory_df
            /\ escaped' = exc
            /\ pc' = "crashed"
            /\ data' = data

\* One pass of the body of the inner loop that raises.
SimulateRaise ==
    /\ pc = "simulate"
    /\ InLoop
    /\ StepException(products_df, products_df.rows[row], day) # NoException
    /\ Leave(StepException(products_df, products_df.rows[row], day),
             [rows |-> CalculateInventoryMetrics(inventory_data)])
    /\ UNCHANGED <<RESTOCKING_FREQUENCY, DEMAND_VARIABILITY, days, response,
                   products_df, day, row, inventory_data, fresh_draws,
                   categories_df, quality_log, mrow, mout, sheets>>

\* After the loops: pd.DataFrame(inventory_data), the metrics, the return.
SimulateReturn ==
    /\ pc = "simulate"
    /\ ~InLoop
    /\ IF MetricsException(inventory_data) # NoException
       THEN Leave(MetricsException(inventory_data), [rows |-> <<>>])
       ELSE /\ inventory_df' = [rows |-> CalculateInventoryMetrics(inventory_data)]
            /\ data' = PutIfPresent(data, "inventory", inventory_df')
            /\ pc' = "get_categories"
            /\ UNCHANGED <<raised, escaped>>
    /\ UNCHANGED <<RESTOCKING_FREQUENCY, DEMAND_VARIABILITY, days, response,
                   products_df, day, row, inventory_data, fresh_draws,
                   categories_df, quality_log, mrow, mout, sheets>>

\* categories_df = self.get_categories(); ...; return data
GetCategories ==
    /\ pc = "get_categories"
    /\ \E delivered \in BOOLEAN :
          categories_df' = IF delivered THEN CategoriesTable ELSE None
    /\ data' = PutIfPresent(data, "categories", categories_df')
    /\ pc' = "done"
    /\ UNCHANGED <<RESTOCKING_FREQUENCY, DEMAND_VARIABILITY, days, response,
                   products_df, day, row, inventory_data, fresh_draws, raised,
                   escaped, inventory_df, quality_log, mrow, mout, sheets>>

(***************************************************************************)
(* ExcelConnector.  A sheet as pd.read_excel delivers it: its columns, its *)
(* null cells among its cells, whether its date cells parse, and the       *)
(* columns already converted to datetime.                                  *)
(***************************************************************************)
OrdersRequired ==
    {"Order ID", "Order Date", "Ship Date", "Customer ID", "Product ID"}

OrdersColumns == OrdersRequired \cup {"Sales", "Quantity"}

NullCounts == {0, 1, 2}

Tables(columnSets) ==
    [columns : columnSets, nulls : NullCounts, cells : {20},
     dates_parse : BOOLEAN, datetime : {{}}]

ReadFailed == [ok |-> FALSE]

Sheets(columnSets, dateColumns) ==
    {ReadFailed} \cup
    {[ok |-> TRUE, table |-> t] :
        t \in {u \in Tables(columnSets) :
                  u.columns \cap dateColumns = {} => u.dates_parse}}

OrdersSheets ==
    Sheets({OrdersColumns, OrdersColumns \ {"Order ID"},
            OrdersColumns \ {"Ship Date"}, OrdersColumns \ {"Quantity"}},
           {"Order Date", "Ship Date"})

ReturnsSheets ==
    Sheets({{"Order ID", "Returned"}, {"Order ID", "Returned", "Return Date"}},
           {"Return Date"})

PeopleSheets == Sheets({{"Person", "Region"}, {"Region"}}, {})

\* _validate_orders_data
ValidateOrdersData(df) ==
    <<MissingDataSignal("Orders Missing Data", df.nulls, df.cells),
      RequiredColumnsSignal("Orders Required Columns", OrdersRequired,
                            df.columns)>>

\* _validate_returns_data
ValidateReturnsData(df) ==
    <<MissingDataSignal("Returns Missing Data", df.nulls, df.cells)>>

\* _validate_people_data
ValidatePeopleData(df) ==
    <<MissingDataSignal("People Missing Data", df.nulls, df.cells)>>

\* df[col] = pd.to_datetime(df[col]) for the columns of cols the sheet has:
\* ValueError when a cell does not parse.
ToDatetimeException(df, cols) ==
    IF cols \cap df.columns # {} /\ ~df.dates_parse
    THEN "ValueError"
    ELSE NoException

ToDatetime(df, cols) ==
    [df EXCEPT !.datetime = df.datetime \cup (cols \cap df.columns)]

AddColumns(df, cols) == [df EXCEPT !.columns = df.columns \cup cols]

\* _transform_orders_data
TransformOrdersData(df) ==
    LET a == ToDatetime(df, {"Order Date", "Ship Date"})
        b == IF {"Order Date", "Ship Date"} \subseteq a.columns
             THEN AddColumns(a, {"Lead Time (Days)"})
             ELSE a
        c == IF "Order Date" \in b.columns
             THEN AddColumns(b, {"Order Year", "Order Month", "Order Quarter"})
             ELSE b
    IN  IF {"Sales", "Quantity"} \subseteq c.columns
        THEN AddColumns(c, {"Order Value"})
        ELSE c

\* _transform_returns_data
TransformReturnsData(df) == ToDatetime(df, {"Return Date"})

\* _transform_people_data
TransformPeopleData(df) ==
    IF "Person" \notin df.columns THEN AddColumns(df, {"Person"}) ELSE df

\* try: ... return df / except Exception: ... return None
Returned(exc, df) == IF exc = NoException THEN df ELSE None

\* self.logger.error(...) in the handler of a loader: the logger of
\* utils.logger records the message and raises nothing.
LoggerException == NoException

\* The exception that leaves a loader: the one its handler raises.
HandlerException(result) == IF result = None THEN LoggerException ELSE NoException

\* load_orders_data
LoadOrdersData(sheet) ==
    IF ~sheet.ok
    THEN None
    ELSE Returned(ToDatetimeException(sheet.table, {"Order Date", "Ship Date"}),
                  TransformOrdersData(sheet.table))

\* load_returns_data
LoadReturnsData(sheet) ==
    IF ~sheet.ok
    THEN None
    ELSE Returned(ToDatetimeException(sheet.table, {"Return Date"}),
                  TransformReturnsData(sheet.table))

\* load_people_data
LoadPeopleData(sheet) ==
    IF ~sheet.ok THEN None ELSE Returned(NoException, TransformPeopleData(sheet.table))

InitExcel ==
    /\ sheets \in [orders : OrdersSheets, returns : ReturnsSheets,
                   people : PeopleSheets]
    /\ RESTOCKING_FREQUENCY = 1
    /\ DEMAND_VARIABILITY = 0
    /\ days = 0
    /\ response = FetchFailed
    /\ InitRun("load_orders")
    /\ mrow = None
    /\ mout = None

\* The variables a loader leaves alone.
loaderFrame == <<RESTOCKING_FREQUENCY, DEMAND_VARIABILITY, days, response,
                 products_df, day, row, inventory_data, fresh_draws, raised,
                 inventory_df, categories_df, mrow, mout, sheets>>

\* data[key] = result, unless the loader let an exception out.
Store(key, result, next) ==
    /\ escaped' = HandlerException(result)
    /\ IF escaped' = NoException
       THEN data' = Put(data, key, result) /\ pc' = next
       ELSE data' = data /\ pc' = "crashed"

\* data['orders'] = self.load_orders_data()
LoadOrders ==
    /\ pc = "load_orders"
    /\ Store("orders", LoadOrdersData(sheets.orders), "load_returns")
    /\ quality_log' = IF sheets.orders.ok
                      THEN quality_log \o ValidateOrdersData(sheets.orders.table)
                      ELSE quality_log
    /\ UNCHANGED loaderFrame

\* data['returns'] = self.load_returns_data()
LoadReturns ==
    /\ pc = "load_returns"
    /\ Store("returns", LoadReturnsData(sheets.returns), "load_people")
    /\ quality_log' = IF sheets.returns.ok
                      THEN quality_log \o ValidateReturnsData(sheets.returns.table)
                      ELSE quality_log
    /\ UNCHANGED loaderFrame

\* data['people'] = self.load_people_data(); return data
LoadPeople ==
    /\ pc = "load_people"
    /\ Store("people", LoadPeopleData(sheets.people), "excel_done")
    /\ quality_log' = IF sheets.people.ok
                      THEN quality_log \o ValidatePeopleData(sheets.people.table)
                      ELSE quality_log
    /\ UNCHANGED loaderFrame

Init == InitApi \/ InitExcel

Next == GetProducts \/ SimulateStep \/ SimulateRaise \/ SimulateReturn
           \/ GetCategories \/ LoadOrders \/ LoadReturns \/ LoadPeople

Spec == Init /\ [][Next]_vars

(***************************************************************************)
(* SpecDeep: get_all_api_data on a table of one well-formed product, up to *)
(* the return of simulate_inventory.                                       *)
(***************************************************************************)
OneProduct ==
    [ok |-> TRUE,
     frame |-> [columns |-> RequiredColumns,
                rows |-> <<[id |-> "1", price |-> 10, price_is_number |-> TRUE]>>]]

\* The days d of 0..n-1 with d % frequency = 0.
RestockDaysIn(n, frequency) == (n + frequency - 1) \div frequency

InitDeep ==
    /\ RESTOCKING_FREQUENCY \in 1..MaxDeepFreq
    /\ DEMAND_VARIABILITY \in VariabilityTenths
    /\ days \in 1..MaxDeepDays
    /\ RestockDaysIn(days, RESTOCKING_FREQUENCY) <= MaxRestocks
    /\ response = OneProduct
    /\ InitRun("get_products")
    /\ Idle

NextDeep == GetProducts \/ SimulateStep \/ SimulateReturn

SpecDeep == InitDeep /\ [][NextDeep]_vars

(***************************************************************************)
(* SpecMetrics: _calculate_inventory_metrics on a table of one row.        *)
(***************************************************************************)
InitMetrics ==
    /\ mrow \in [date : {0}, product_id : {"1"}, daily_demand : 0..MaxDemand,
                 stock_level : 0..MaxStock, restock_amount : {0},
                 restocked : {FALSE}, original_price : {10}]
    /\ mout = None
    /\ sheets = None
    /\ RESTOCKING_FREQUENCY = 1
    /\ DEMAND_VARIABILITY = 0
    /\ days = 0
    /\ response = FetchFailed
    /\ InitRun("metrics")

Derive ==
    /\ pc = "metrics"
    /\ mout' = CalculateInventoryMetrics(<<mrow>>)[1]
    /\ pc' = "derived"
    /\ UNCHANGED <<simVars, data, quality_log, mrow, sheets>>

NextMetrics == Derive

SpecMetrics == InitMetrics /\ [][NextMetrics]_vars

(***************************************************************************)
(* The claims.                                                             *)
(***************************************************************************)
SimulationOver == pc \in {"get_categories", "done"} /\ products_df # None

\* The record of product row i (1-based) on day d in a table of n rows.
At(d, i, n) == d * n + i

\* C1: a simulation that succeeds returns exactly days * |products| records,
\* one per (product row, day) pair, the days of one product being 0..days-1
\* in order.
C1_OneRecordPerProductAndDay ==
    (SimulationOver /\ inventory_df # None) =>
        LET n == Len(products_df.rows)
            out == inventory_df.rows
        IN  /\ n >= 1
            /\ days >= 1
            /\ Len(out) = days * n
            /\ \A d \in 0..(days - 1) : \A i \in 1..n :
                  /\ out[At(d, i, n)].date = d
                  /\ out[At(d, i, n)].product_id = products_df.rows[i].id

C1_Witness ==
    /\ pc = "done"
    /\ inventory_df # None
    /\ Len(products_df.rows) = 2
    /\ days = 2
    /\ Len(inventory_df.rows) = 4

\* C2: no record, at any moment of the simulation or in its result, has a
\* negative stock_level or daily_demand; the stock carried to the next day is
\* the clamped one.
C2_NonNegative ==
    /\ \A k \in 1..Len(inventory_data) :
          inventory_data[k].stock_level >= 0 /\ inventory_data[k].daily_demand >= 0
    /\ inventory_df # None =>
          \A k \in 1..Len(inventory_df.rows) :
             /\ inventory_df.rows[k].stock_level >= 0
             /\ inventory_df.rows[k].daily_demand >= 0

\* The clamp is active: the demand of the day exceeds the stock carried in.
C2_Witness ==
    \E k \in 2..Len(inventory_data) :
       /\ inventory_data[k].stock_level = 0
       /\ inventory_data[k - 1].stock_level
             - inventory_data[k].daily_demand
             + inventory_data[k].restock_amount < 0

\* C3: a record is restocked exactly on the days d with
\* d mod RESTOCKING_FREQUENCY = 0; its restock_amount is then in 50..100, and
\* 0 otherwise.
C3_RestockOnDesignatedDays ==
    \A k \in 1..Len(inventory_data) :
       LET r == inventory_data[k]
       IN  /\ r.restocked <=> (r.date % RESTOCKING_FREQUENCY = 0)
           /\ r.restocked => r.restock_amount \in 50..100
           /\ ~r.restocked => r.restock_amount = 0

C3_Witness ==
    /\ \E k \in 1..Len(inventory_data) :
          inventory_data[k].restocked /\ inventory_data[k].date > 0
    /\ \E k \in 1..Len(inventory_data) : ~inventory_data[k].restocked

\* Every row has an id, and no two rows the same.
WellFormed(df) ==
    /\ df # None
    /\ \A i \in 1..Len(df.rows) : df.rows[i].id # NaN
    /\ \A i, j \in 1..Len(df.rows) : df.rows[i].id = df.rows[j].id => i = j

\* C4: on well-formed input the stock of a product on a day d > 0 continues
\* its own stock of day d - 1, and randint(50, 200) is drawn on day 0 only.
C4_Continuity ==
    WellFormed(products_df) =>
        LET n == Len(products_df.rows)
        IN  /\ \A k \in 1..Len(inventory_data) :
                  inventory_data[k].date > 0 =>
                     inventory_data[k].stock_level =
                        Max(0, inventory_data[k - n].stock_level
                                  - inventory_data[k].daily_demand
                                  + inventory_data[k].restock_amount)
            /\ \A f \in fresh_draws : f[1] = 0

\* Two products whose stocks differ, each carried over to day 1.
C4_Witness ==
    /\ WellFormed(products_df)
    /\ Len(products_df.rows) = 2
    /\ Len(inventory_data) = 4
    /\ inventory_data[1].stock_level # inventory_data[2].stock_level
    /\ fresh_draws = {<<0, 1>>, <<0, 2>>}

\* C5: fill_rate is in [0, 1], and stockout_risk is days_of_inventory < 3,
\* which is daily_demand > 0 and stock_level < 3 * daily_demand.
C5_FillRateAndRisk ==
    pc = "derived" =>
        /\ mout.fill_rate.den > 0
        /\ 0 <= mout.fill_rate.num
        /\ mout.fill_rate.num <= mout.fill_rate.den
        /\ mout.stockout_risk <=>
              (/\ mout.days_of_inventory # Infinity
               /\ mout.days_of_inventory.num < 3 * mout.days_of_inventory.den)
        /\ mout.stockout_risk <=>
              (mrow.daily_demand > 0 /\ mrow.stock_level < 3 * mrow.daily_demand)

\* A row at risk whose demand of the day is still met in full.
C5_Witness ==
    /\ pc = "derived"
    /\ mout.stockout_risk
    /\ mout.fill_rate = One
    /\ mrow.stock_level > mrow.daily_demand

\* C6: with daily_demand = 0, days_of_inventory is infinite, fill_rate is 1
\* and stockout_risk false; with stock_level = 0, annualized_turnover is 0.
C6_ZeroDenominators ==
    pc = "derived" =>
        /\ mrow.daily_demand = 0 =>
              /\ mout.days_of_inventory = Infinity
              /\ mout.fill_rate = [num |-> 1, den |-> 1]
              /\ ~mout.stockout_risk
        /\ mrow.stock_level = 0 =>
              mout.annualized_turnover = [num |-> 0, den |-> 1]

C6_Witness ==
    /\ pc = "derived"
    /\ mrow.stock_level = 0
    /\ mrow.daily_demand > 0
    /\ mout.annualized_turnover = [num |-> 0, den |-> 1]

\* C7: a simulation in which an exception was raised returns None, and the
\* aggregator stores no inventory; whatever is returned is the whole table;
\* no exception leaves simulate_inventory.
C7_AllOrNothing ==
    /\ escaped = NoException
    /\ pc # "crashed"
    /\ SimulationOver =>
          /\ raised # NoException =>
                inventory_df = None /\ "inventory" \notin DOMAIN data
          /\ inventory_df # None =>
                Len(inventory_df.rows) = days * Len(products_df.rows)

\* The failure follows a record already produced.
C7_Witness ==
    /\ pc = "done"
    /\ raised = "ZeroDivisionError"
    /\ Len(inventory_data) >= 1
    /\ inventory_df = None

\* C8: get_all_api_data returns the keys of the tables that were produced,
\* each with its table, 'inventory' only beside 'products' and 'categories'
\* whatever became of the products; get_all_data returns its three keys, each
\* with what its own loader returned, None for a load that failed.
C8_Aggregators ==
    /\ escaped = NoException
    /\ pc = "done" =>
          /\ DOMAIN data \subseteq {"products", "inventory", "categories"}
          /\ "products" \in DOMAIN data <=> products_df # None
          /\ "inventory" \in DOMAIN data <=> inventory_df # None
          /\ "categories" \in DOMAIN data <=> categories_df # None
          /\ "inventory" \in DOMAIN data => "products" \in DOMAIN data
          /\ "products" \in DOMAIN data => data["products"] = response.frame
          /\ "inventory" \in DOMAIN data => data["inventory"] = inventory_df
          /\ \A k \in DOMAIN data : data[k] # None
    /\ pc = "excel_done" =>
          /\ DOMAIN data = {"orders", "returns", "people"}
          /\ data["orders"] = None <=>
                (~sheets.orders.ok \/
                    ToDatetimeException(sheets.orders.table,
                                        {"Order Date", "Ship Date"}) # NoException)
          /\ data["returns"] = None <=>
                (~sheets.returns.ok \/
                    ToDatetimeException(sheets.returns.table,
                                        {"Return Date"}) # NoException)
          /\ data["people"] = None <=> ~sheets.people.ok

\* The products failed and the categories are there all the same.
C8_Witness ==
    /\ pc = "done"
    /\ products_df = None
    /\ "products" \notin DOMAIN data
    /\ "categories" \in DOMAIN data

\* C9: whatever the validator does, get_products returns the table that was
\* fetched.
C9_ValidationNeverBlocks ==
    (pc \in {"simulate", "get_categories", "done", "crashed"} /\ response.ok) =>
        products_df = response.frame

\* C10: a record of a restock day has stock_level >= 31, daily_demand being
\* at most 19; stock_level = 0, and with it fill_rate = 0, occurs on a day
\* without restock only, and never when RESTOCKING_FREQUENCY = 1.
C10_RestockDayStock ==
    /\ \A k \in 1..Len(inventory_data) :
          LET r == inventory_data[k]
          IN  /\ r.daily_demand <= 19
              /\ r.restocked => r.stock_level >= 31
              /\ r.stock_level = 0 => ~r.restocked
              /\ RESTOCKING_FREQUENCY = 1 => r.stock_level > 0
    /\ inventory_df # None =>
          \A k \in 1..Len(inventory_df.rows) :
             inventory_df.rows[k].fill_rate = [num |-> 0, den |-> 1] =>
                ~inventory_df.rows[k].restocked

\* A stockout on a day without restock, and the restock day after it that
\* starts from an empty stock.
C10_Witness ==
    /\ inventory_df # None
    /\ \E k \in 1..Len(inventory_df.rows) :
          /\ ~inventory_df.rows[k].restocked
          /\ inventory_df.rows[k].fill_rate = [num |-> 0, den |-> 1]
    /\ \E k \in 1..Len(inventory_df.rows) :
          /\ inventory_df.rows[k].restocked
          /\ inventory_df.rows[k].stock_level = 31

====
